---- MODULE Spec2Model ----
(***************************************************************************)
(* The expense tracker API (main.py, auth.py, crud.py, models.py): the     *)
(* login rate limiter and the handlers of the users and expenses tables.   *)
(*                                                                         *)
(* Time is counted in clock ticks, TicksPerSecond of them to a second, so  *)
(* that instants have a sub-second part as datetime.utcnow() has.          *)
(* The attempt log is the login_attempts table in insertion (id) order.    *)
(* /login and /token are coroutines without an await: each request runs to *)
(* completion on the event loop, so a request is one action; all clock     *)
(* reads of one request see the same instant.                              *)
(***************************************************************************)
EXTENDS Integers, Sequences, FiniteSets

VARIABLES
    now,      \* datetime.utcnow(), in ticks
    log,      \* the login_attempts table, a sequence of LoginAttempt rows
    users,    \* the users table, a set of User rows
    expenses, \* the expenses table, a set of Expense rows
    requests, \* the requests in progress, by worker
    resp      \* the response to the most recent request

vars == <<now, log, users, expenses, requests, resp>>

----------------------------------------------------------------------------
(* Bounds of the model *)

TicksPerSecond == 2
MaxLog == 6
MaxExpenses == 2
MaxWorkers == 2

(* Program constants *)

MaxFailedAttempts == 5
RecentMinutes == 1
BlockMinutes == 30
TokenHours == 24

Seconds(n) == n * TicksPerSecond
Minutes(n) == Seconds(60 * n)
Hours(n) == Minutes(60 * n)

RecentWindow == Minutes(RecentMinutes)
BlockWindow == Minutes(BlockMinutes)

(* The instants at which the clock is observed: the start, 40 seconds      *)
(* later, one recent window later (the inclusive boundary) and one tick    *)
(* after that.                                                             *)
Instants == {0, Seconds(40), RecentWindow, RecentWindow + 1}

Usernames == {"alice", "bob"}
Passwords == {"secret", "wrong"}
ClientIps == {"10.0.0.1"}
AuditIps == {"10.0.0.1", "unknown"}

----------------------------------------------------------------------------
(* auth.py: password hashing and user lookup *)

get_password_hash(password) == <<"bcrypt", password>>

verify_password(plain_password, hashed_password) ==
    hashed_password = get_password_hash(plain_password)

NoUser == [id |-> 0, username |-> "", email |-> "", hashed_password |-> <<>>]

get_user(db_users, username) ==
    IF \E u \in db_users : u.username = username
    THEN CHOOSE u \in db_users : u.username = username
    ELSE NoUser

get_user_by_username(db_users, username) == get_user(db_users, username)

authenticate_user(db_users, username, password) ==
    LET user == get_user(db_users, username)
    IN  IF user = NoUser THEN NoUser
        ELSE IF ~verify_password(password, user.hashed_password) THEN NoUser
        ELSE user

create_access_token(sub, at, expires_delta) ==
    [sub |-> sub, iat |-> at \div TicksPerSecond,
     exp |-> (at + expires_delta) \div TicksPerSecond]

NoToken == [sub |-> "", iat |-> 0, exp |-> 0]

----------------------------------------------------------------------------
(* main.py: the attempt log and the limiter *)

LoginAttempt(id, username, ip_address, success, timestamp) ==
    [id |-> id, username |-> username, ip_address |-> ip_address,
     success |-> success, timestamp |-> timestamp]

(* Variant: a logged success clears the earlier failures of the username. *)
log_login_attempt_clearing(db_log, username, ip_address, success, at) ==
    LET Kept(a) == ~(success /\ a.username = username /\ a.success = 0)
        kept == SelectSeq(db_log, Kept)
    IN  Append(kept,
               LoginAttempt(Len(kept) + 1, username, ip_address,
                            IF success THEN 1 ELSE 0, at))

log_login_attempt(db_log, username, ip_address, success, at) ==
    Append(db_log,
           LoginAttempt(Len(db_log) + 1, username, ip_address,
                        IF success THEN 1 ELSE 0, at))

(* Variant: the filter without the username. *)
recent_failed_any_user(db_log, username, one_minute_ago) ==
    LET Keep(a) == /\ a.success = 0
                   /\ a.timestamp >= one_minute_ago
    IN  SelectSeq(db_log, Keep)

(* Variant: the filter without the success flag. *)
recent_failed_any_outcome(db_log, username, one_minute_ago) ==
    LET Keep(a) == /\ a.username = username
                   /\ a.timestamp >= one_minute_ago
    IN  SelectSeq(db_log, Keep)

(* Variant: the filter without the recent window. *)
recent_failed_ever(db_log, username, one_minute_ago) ==
    LET Keep(a) == /\ a.username = username
                   /\ a.success = 0
    IN  SelectSeq(db_log, Keep)

(* The filter shared by the three queries of the limiter. *)
recent_failed(db_log, username, one_minute_ago) ==
    LET Keep(a) == /\ a.username = username
                   /\ a.success = 0
                   /\ a.timestamp >= one_minute_ago
    IN  SelectSeq(db_log, Keep)

Rows(s) == {s[i] : i \in 1..Len(s)}

NoAttempt == LoginAttempt(0, "", "", 0, 0)

(* order_by(timestamp.asc()).limit(1).first(): a row of least timestamp;   *)
(* among equal timestamps the store picks, and only the timestamp is read. *)
first_by_timestamp(s) ==
    IF s = <<>> THEN NoAttempt
    ELSE CHOOSE a \in Rows(s) : \A b \in Rows(s) : a.timestamp <= b.timestamp

(* Variant: a block, once triggered, is kept for the 30 minutes that       *)
(* follow the trigger.                                                     *)
is_user_blocked_latched(db_log, username, at) ==
    \E i \in 1..Len(db_log) :
        /\ db_log[i].username = username
        /\ db_log[i].success = 0
        /\ db_log[i].timestamp <= at
        /\ db_log[i].timestamp >= at - BlockWindow
        /\ Len(recent_failed(db_log, username, db_log[i].timestamp))
               >= MaxFailedAttempts

(* Variant: the threshold compared with = instead of >=. *)
is_user_blocked_exactly(db_log, username, at) ==
    LET one_minute_ago == at - RecentWindow
        failed_attempts == Len(recent_failed(db_log, username, one_minute_ago))
    IN  failed_attempts = MaxFailedAttempts

(* Variant: the failures are counted over the 30 minutes of the block. *)
is_user_blocked_long_window(db_log, username, at) ==
    LET thirty_minutes_ago == at - BlockWindow
        failed_attempts == Len(recent_failed(db_log, username, thirty_minutes_ago))
    IN  failed_attempts >= MaxFailedAttempts

(* Variant: the threshold compared with > instead of >=. *)
is_user_blocked_strict(db_log, username, at) ==
    LET one_minute_ago == at - RecentWindow
        failed_attempts == Len(recent_failed(db_log, username, one_minute_ago))
    IN  IF failed_attempts > MaxFailedAttempts
        THEN LET thirty_minutes_ago == at - BlockWindow
                 fifth_attempt ==
                     first_by_timestamp(recent_failed(db_log, username, one_minute_ago))
             IN  fifth_attempt # NoAttempt
                 /\ fifth_attempt.timestamp >= thirty_minutes_ago
        ELSE FALSE

(* Variant: blocks one failure early. *)
is_user_blocked_early(db_log, username, at) ==
    LET one_minute_ago == at - RecentWindow
        failed_attempts == Len(recent_failed(db_log, username, one_minute_ago))
    IN  failed_attempts >= MaxFailedAttempts - 1

is_user_blocked(db_log, username, at) ==
    LET one_minute_ago == at - RecentWindow
        failed_attempts == Len(recent_failed(db_log, username, one_minute_ago))
    IN  IF failed_attempts >= MaxFailedAttempts
        THEN LET thirty_minutes_ago == at - BlockWindow
                 fifth_attempt ==
                     first_by_timestamp(recent_failed(db_log, username, one_minute_ago))
             IN  fifth_attempt # NoAttempt
                 /\ fifth_attempt.timestamp >= thirty_minutes_ago
        ELSE FALSE

(* int(x) of a duration of n ticks in seconds: truncation toward zero. *)
total_seconds_int(n) ==
    IF n >= 0 THEN n \div TicksPerSecond ELSE -((-n) \div TicksPerSecond)

Max(a, b) == IF a >= b THEN a ELSE b

(* Variant: the block ends one minute after the trigger. *)
get_block_remaining_time_short(db_log, username, at) ==
    LET one_minute_ago == at - RecentWindow
        fifth_attempt ==
            first_by_timestamp(recent_failed(db_log, username, one_minute_ago))
    IN  IF fifth_attempt # NoAttempt
        THEN LET block_end == fifth_attempt.timestamp + RecentWindow
                 remaining == block_end - at
             IN  Max(0, total_seconds_int(remaining))
        ELSE 0

(* Variant: the 5-failure threshold applied before the lookup. *)
get_block_remaining_time_gated(db_log, username, at) ==
    LET one_minute_ago == at - RecentWindow
        failed == recent_failed(db_log, username, one_minute_ago)
    IN  IF Len(failed) >= MaxFailedAttempts
        THEN Max(0, total_seconds_int(first_by_timestamp(failed).timestamp
                                      + BlockWindow - at))
        ELSE 0

get_block_remaining_time(db_log, username, at) ==
    LET one_minute_ago == at - RecentWindow
        fifth_attempt ==
            first_by_timestamp(recent_failed(db_log, username, one_minute_ago))
    IN  IF fifth_attempt # NoAttempt
        THEN LET block_end == fifth_attempt.timestamp + BlockWindow
                 remaining == block_end - at
             IN  Max(0, total_seconds_int(remaining))
        ELSE 0

----------------------------------------------------------------------------
(* Responses *)

NoResp == [kind |-> "none"]

(* A response, with the request it answers. verified: authenticate_user    *)
(* was called for it. raised: empty unless a call of the handler raised.   *)
Http(endpoint, username, password, status, detail, token, verified) ==
    [kind |-> "http", endpoint |-> endpoint, username |-> username,
     password |-> password, status |-> status, detail |-> detail,
     access_token |-> token,
     token_type |-> IF status = 200 THEN "bearer" ELSE "",
     www_authenticate |-> IF status \in {401, 429} THEN "Bearer" ELSE "",
     verified |-> verified,
     raised |-> ""]

(* The response of the handler's except clause; raised: the call of the    *)
(* handler that raised.                                                    *)
HttpError(endpoint, username, password, detail, verified, raised) ==
    [Http(endpoint, username, password, 500, detail, NoToken, verified)
        EXCEPT !.raised = raised]

(* Variant: the minutes rounded up. *)
BlockedDetail_rounded_up(remaining_time) ==
    <<"Account temporarily blocked", (remaining_time + 59) \div 60,
      remaining_time % 60>>

BlockedDetail(remaining_time) ==
    <<"Account temporarily blocked", remaining_time \div 60, remaining_time % 60>>

IncorrectDetail == <<"Incorrect username or password">>

LoginErrorDetail == <<"An error occurred during login">>

TokenErrorDetail == <<"An error occurred during token creation">>

----------------------------------------------------------------------------
(* State machine *)

InitUsers ==
    {[id |-> 1, username |-> "alice", email |-> "alice@example.com",
      hashed_password |-> get_password_hash("secret")]}

(* The workers that serve requests, and a worker that serves none. *)
Workers == 1..MaxWorkers

Idle == [pc |-> "idle"]

Init ==
    /\ now = 0
    /\ log = <<>>
    /\ users = InitUsers
    /\ expenses = {}
    /\ requests = [w \in Workers |-> Idle]
    /\ resp = NoResp

(* Real time passes: the clock moves to a later instant. *)
Tick ==
    /\ \E t \in Instants : t > now /\ now' = t
    /\ UNCHANGED <<log, users, expenses, requests, resp>>

(* Variant of /login: the password is verified before the block check. *)
login_password_first(username, password, client_ip) ==
    LET user == authenticate_user(users, username, password)
    IN  IF user # NoUser
        THEN /\ Len(log) < MaxLog
             /\ log' = log_login_attempt(log, username, client_ip, TRUE, now)
             /\ resp' = Http("/login", username, password, 200, <<>>,
                             create_access_token(user.username, now,
                                                 Hours(TokenHours)),
                             TRUE)
             /\ UNCHANGED <<now, users, expenses, requests>>
        ELSE IF is_user_blocked(log, username, now)
        THEN /\ resp' = Http("/login", username, password, 429,
                             BlockedDetail(get_block_remaining_time(log, username, now)),
                             NoToken, TRUE)
             /\ UNCHANGED <<now, log, users, expenses, requests>>
        ELSE /\ Len(log) < MaxLog
             /\ log' = log_login_attempt(log, username, client_ip, FALSE, now)
             /\ resp' = Http("/login", username, password, 401,
                             IncorrectDetail, NoToken, TRUE)
             /\ UNCHANGED <<now, users, expenses, requests>>

(* The unblocked part of /token. *)
token_unblocked(username, password, client_ip, log_failure, log_success) ==
    LET user == authenticate_user(users, username, password)
    IN  IF user = NoUser
        THEN /\ Len(log) < MaxLog
             /\ log' = IF log_failure
                       THEN log_login_attempt(log, username, client_ip, FALSE, now)
                       ELSE log
             /\ resp' = Http("/token", username, password, 401,
                             IncorrectDetail, NoToken, TRUE)
             /\ UNCHANGED <<now, users, expenses, requests>>
        ELSE /\ Len(log) < MaxLog
             /\ log' = IF log_success
                       THEN log_login_attempt(log, username, client_ip, TRUE, now)
                       ELSE log
             /\ resp' = Http("/token", username, password, 200, <<>>,
                             create_access_token(user.username, now,
                                                 Hours(TokenHours)),
                             TRUE)
             /\ UNCHANGED <<now, users, expenses, requests>>

token_blocked(username, password) ==
    /\ resp' = Http("/token", username, password, 429,
                    BlockedDetail(get_block_remaining_time(log, username, now)),
                    NoToken, FALSE)
    /\ UNCHANGED <<now, users, expenses, requests>>

(* Variant of /token: a request rejected as blocked is logged as a failure. *)
token_logs_blocked(username, password, client_ip) ==
    IF is_user_blocked(log, username, now)
    THEN /\ Len(log) < MaxLog
         /\ log' = log_login_attempt(log, username, client_ip, FALSE, now)
         /\ token_blocked(username, password)
    ELSE token_unblocked(username, password, client_ip, TRUE, TRUE)

(* Variant of /token: the successful attempt is not logged. *)
token_unlogged_success(username, password, client_ip) ==
    IF is_user_blocked(log, username, now)
    THEN log' = log /\ token_blocked(username, password)
    ELSE token_unblocked(username, password, client_ip, TRUE, FALSE)

(* Variant of /token: the failed attempt is not logged. *)
token_forgets_failure(username, password, client_ip) ==
    IF is_user_blocked(log, username, now)
    THEN log' = log /\ token_blocked(username, password)
    ELSE token_unblocked(username, password, client_ip, FALSE, TRUE)

(* Variant of /login: an unregistered username is answered 404 and not    *)
(* logged.                                                                 *)
login_reveals_unknown(username, password, client_ip) ==
    IF is_user_blocked(log, username, now)
    THEN /\ resp' = Http("/login", username, password, 429,
                         BlockedDetail(get_block_remaining_time(log, username, now)),
                         NoToken, FALSE)
         /\ UNCHANGED <<now, log, users, expenses, requests>>
    ELSE IF get_user_by_username(users, username) = NoUser
    THEN /\ resp' = Http("/login", username, password, 404,
                         <<"User not found">>, NoToken, FALSE)
         /\ UNCHANGED <<now, log, users, expenses, requests>>
    ELSE LET user == authenticate_user(users, username, password)
         IN  /\ Len(log) < MaxLog
             /\ log' = log_login_attempt(log, username, client_ip,
                                         user # NoUser, now)
             /\ resp' = IF user = NoUser
                        THEN Http("/login", username, password, 401,
                                  IncorrectDetail, NoToken, TRUE)
                        ELSE Http("/login", username, password, 200, <<>>,
                                  create_access_token(user.username, now,
                                                      Hours(TokenHours)),
                                  TRUE)
             /\ UNCHANGED <<now, users, expenses, requests>>

(* Variant of /login: a wrong password is logged by the verification and  *)
(* again by the handler.                                                   *)
login_logs_twice(username, password, client_ip) ==
    IF is_user_blocked(log, username, now)
    THEN /\ resp' = Http("/login", username, password, 429,
                         BlockedDetail(get_block_remaining_time(log, username, now)),
                         NoToken, FALSE)
         /\ UNCHANGED <<now, log, users, expenses, requests>>
    ELSE LET db_user == get_user_by_username(users, username)
             user == authenticate_user(users, username, password)
             once == log_login_attempt(log, username, client_ip, user # NoUser, now)
         IN  /\ Len(log) < MaxLog
             /\ log' = IF db_user # NoUser /\ user = NoUser
                       THEN log_login_attempt(once, username, client_ip, FALSE, now)
                       ELSE once
             /\ resp' = IF user = NoUser
                        THEN Http("/login", username, password, 401,
                                  IncorrectDetail, NoToken, db_user # NoUser)
                        ELSE Http("/login", username, password, 200, <<>>,
                                  create_access_token(user.username, now,
                                                      Hours(TokenHours)),
                                  TRUE)
             /\ UNCHANGED <<now, users, expenses, requests>>

(* Variant of /login: the attempt on an unregistered username is answered  *)
(* 401 and not logged.                                                     *)
login_unknown_unlogged(username, password, client_ip) ==
    IF is_user_blocked(log, username, now)
    THEN /\ resp' = Http("/login", username, password, 429,
                         BlockedDetail(get_block_remaining_time(log, username, now)),
                         NoToken, FALSE)
         /\ UNCHANGED <<now, log, users, expenses, requests>>
    ELSE IF get_user_by_username(users, username) = NoUser
    THEN /\ Len(log) < MaxLog
         /\ resp' = Http("/login", username, password, 401,
                         IncorrectDetail, NoToken, FALSE)
         /\ UNCHANGED <<now, log, users, expenses, requests>>
    ELSE LET user == authenticate_user(users, username, password)
         IN  /\ Len(log) < MaxLog
             /\ log' = log_login_attempt(log, username, client_ip,
                                         user # NoUser, now)
             /\ resp' = IF user = NoUser
                        THEN Http("/login", username, password, 401,
                                  IncorrectDetail, NoToken, TRUE)
                        ELSE Http("/login", username, password, 200, <<>>,
                                  create_access_token(user.username, now,
                                                      Hours(TokenHours)),
                                  TRUE)
             /\ UNCHANGED <<now, users, expenses, requests>>

(* Variant of /login: a request rejected while blocked is logged as a      *)
(* failed attempt.                                                         *)
login_logs_blocked(username, password, client_ip) ==
    IF is_user_blocked(log, username, now)
    THEN /\ Len(log) < MaxLog
         /\ log' = log_login_attempt(log, username, client_ip, FALSE, now)
         /\ resp' = Http("/login", username, password, 429,
                         BlockedDetail(get_block_remaining_time(log, username, now)),
                         NoToken, FALSE)
         /\ UNCHANGED <<now, users, expenses, requests>>
    ELSE LET db_user == get_user_by_username(users, username)
             user == authenticate_user(users, username, password)
         IN  /\ Len(log) < MaxLog
             /\ log' = log_login_attempt(log, username, client_ip,
                                         user # NoUser, now)
             /\ resp' = IF user = NoUser
                        THEN Http("/login", username, password, 401,
                                  IncorrectDetail, NoToken, db_user # NoUser)
                        ELSE Http("/login", username, password, 200, <<>>,
                                  create_access_token(user.username, now,
                                                      Hours(TokenHours)),
                                  TRUE)
             /\ UNCHANGED <<now, users, expenses, requests>>

(* POST /login *)
login(username, password, client_ip) ==
    IF is_user_blocked(log, username, now)
    THEN LET remaining_time == get_block_remaining_time(log, username, now)
         IN  /\ resp' = Http("/login", username, password, 429,
                             BlockedDetail(remaining_time), NoToken, FALSE)
             /\ UNCHANGED <<now, log, users, expenses, requests>>
    ELSE LET db_user == get_user_by_username(users, username)
         IN  IF db_user = NoUser
             THEN /\ Len(log) < MaxLog
                  /\ log' = log_login_attempt(log, username, client_ip, FALSE, now)
                  /\ resp' = Http("/login", username, password, 401,
                                  IncorrectDetail, NoToken, FALSE)
                  /\ UNCHANGED <<now, users, expenses, requests>>
             ELSE LET user == authenticate_user(users, username, password)
                  IN  IF user = NoUser
                      THEN /\ Len(log) < MaxLog
                           /\ log' = log_login_attempt(log, username, client_ip,
                                                       FALSE, now)
                           /\ resp' = Http("/login", username, password, 401,
                                           IncorrectDetail, NoToken, TRUE)
                           /\ UNCHANGED <<now, users, expenses, requests>>
                      ELSE /\ Len(log) < MaxLog
                           /\ log' = log_login_attempt(log, username, client_ip,
                                                       TRUE, now)
                           /\ resp' = Http("/login", username, password, 200, <<>>,
                                           create_access_token(user.username, now,
                                                               Hours(TokenHours)),
                                           TRUE)
                           /\ UNCHANGED <<now, users, expenses, requests>>

(* POST /token *)
login_for_access_token(username, password, client_ip) ==
    IF is_user_blocked(log, username, now)
    THEN LET remaining_time == get_block_remaining_time(log, username, now)
         IN  /\ resp' = Http("/token", username, password, 429,
                             BlockedDetail(remaining_time), NoToken, FALSE)
             /\ UNCHANGED <<now, log, users, expenses, requests>>
    ELSE LET user == authenticate_user(users, username, password)
         IN  IF user = NoUser
             THEN /\ Len(log) < MaxLog
                  /\ log' = log_login_attempt(log, username, client_ip, FALSE, now)
                  /\ resp' = Http("/token", username, password, 401,
                                  IncorrectDetail, NoToken, TRUE)
                  /\ UNCHANGED <<now, users, expenses, requests>>
             ELSE /\ Len(log) < MaxLog
                  /\ log' = log_login_attempt(log, username, client_ip, TRUE, now)
                  /\ resp' = Http("/token", username, password, 200, <<>>,
                                  create_access_token(user.username, now,
                                                      Hours(TokenHours)),
                                  TRUE)
                  /\ UNCHANGED <<now, users, expenses, requests>>

Login == \E u \in Usernames, p \in Passwords, ip \in ClientIps : login(u, p, ip)

Token ==
    \E u \in Usernames, p \in Passwords, ip \in ClientIps :
        login_for_access_token(u, p, ip)

Next == Tick \/ Login \/ Token

Spec == Init /\ [][Next]_vars

(* The limiter called directly, as its unit tests call it; a success is    *)
(* logged for registered usernames only.                                   *)
Record ==
    \E u \in Usernames, ip \in ClientIps, success \in BOOLEAN :
        /\ Len(log) < MaxLog
        /\ success => get_user(users, u) # NoUser
        /\ log' = log_login_attempt(log, u, ip, success, now)
        /\ resp' = NoResp
        /\ UNCHANGED <<now, users, expenses, requests>>

NextLimiter == Tick \/ Record

SpecLimiter == Init /\ [][NextLimiter]_vars

(* The limiter called on a log that has aged, as its unit tests build one: *)
(* the clock is observed at the start, 10 seconds later, and 5 minutes     *)
(* after each of these.                                                    *)
AgingInstants == {0, Seconds(10), Minutes(5), Minutes(5) + Seconds(10)}

Age ==
    /\ \E t \in AgingInstants : t > now /\ now' = t
    /\ UNCHANGED <<log, users, expenses, requests, resp>>

NextAging == Age \/ Record

SpecAging == Init /\ [][NextAging]_vars


(* Waiting out a block. Time never stops: the clock of this specification  *)
(* has an instant more than one recent window after every instant at which *)
(* a failing request is made. The failing requests leave room in the log   *)
(* for one more row, and the registered user keeps retrying /login with    *)
(* the correct password.                                                   *)
RecoverInstants ==
    {0, Seconds(40), RecentWindow, RecentWindow + 1, 2 * RecentWindow + 2}

Wait ==
    /\ \E t \in RecoverInstants : t > now /\ now' = t
    /\ UNCHANGED <<log, users, expenses, requests, resp>>

ClockAhead == \E t \in RecoverInstants : t > now + RecentWindow

Attack ==
    /\ ClockAhead
    /\ Len(log) < MaxLog - 1
    /\ \E u \in Usernames, ip \in ClientIps :
           \/ login(u, "wrong", ip)
           \/ login_for_access_token(u, "wrong", ip)

Retry == \E ip \in ClientIps : login("alice", "secret", ip)

NextRecover == Wait \/ Attack \/ Retry

SpecRecover ==
    Init /\ [][NextRecover]_vars /\ WF_vars(Wait) /\ WF_vars(Retry)

(* The handlers against a store that may fail. A call on the session       *)
(* raises; the handler's except clause turns every exception that is not   *)
(* an HTTPException into a 500. A commit that raises writes no row.        *)
StoreCalls ==
    {"is_user_blocked", "get_block_remaining_time", "get_user_by_username",
     "authenticate_user", "log_login_attempt"}

(* Variant: a failure of the block check is taken as 'not blocked'.        *)
login_for_access_token_fails_open(username, password, client_ip, raised) ==
    LET user == authenticate_user(users, username, password)
    IN  /\ raised = "is_user_blocked"
        /\ Len(log) < MaxLog
        /\ log' = log_login_attempt(log, username, client_ip, user # NoUser, now)
        /\ resp' = [(IF user = NoUser
                     THEN Http("/token", username, password, 401,
                               IncorrectDetail, NoToken, TRUE)
                     ELSE Http("/token", username, password, 200, <<>>,
                               create_access_token(user.username, now,
                                                   Hours(TokenHours)),
                               TRUE))
                       EXCEPT !.raised = raised]
        /\ UNCHANGED <<now, users, expenses, requests>>

(* POST /login, one of its calls raising *)
login_raises(username, password, client_ip, raised) ==
    LET blocked == is_user_blocked(log, username, now)
        db_user == get_user_by_username(users, username)
    IN  /\ CASE raised = "is_user_blocked" -> TRUE
             [] raised = "get_block_remaining_time" -> blocked
             [] raised = "get_user_by_username" -> ~blocked
             [] raised = "authenticate_user" -> ~blocked /\ db_user # NoUser
             [] raised = "log_login_attempt" -> ~blocked
        /\ resp' = HttpError("/login", username, password, LoginErrorDetail,
                             raised = "log_login_attempt" /\ db_user # NoUser,
                             raised)
        /\ UNCHANGED <<now, log, users, expenses, requests>>

(* POST /token, one of its calls raising *)
login_for_access_token_raises(username, password, client_ip, raised) ==
    LET blocked == is_user_blocked(log, username, now)
    IN  /\ CASE raised = "is_user_blocked" -> TRUE
             [] raised = "get_block_remaining_time" -> blocked
             [] raised = "get_user_by_username" -> FALSE
             [] raised = "authenticate_user" -> ~blocked
             [] raised = "log_login_attempt" -> ~blocked
        /\ resp' = HttpError("/token", username, password, TokenErrorDetail,
                             raised = "log_login_attempt", raised)
        /\ UNCHANGED <<now, log, users, expenses, requests>>

LoginRaises ==
    \E u \in Usernames, p \in Passwords, ip \in ClientIps, raised \in StoreCalls :
        login_raises(u, p, ip, raised)

TokenRaises ==
    \E u \in Usernames, p \in Passwords, ip \in ClientIps, raised \in StoreCalls :
        login_for_access_token_raises(u, p, ip, raised)

(* The clock stands still here: what a raising call does depends on the    *)
(* log and not on the instant.                                             *)
NextFaulty == Login \/ Token \/ LoginRaises \/ TokenRaises

SpecFaulty == Init /\ [][NextFaulty]_vars

----------------------------------------------------------------------------
(* The users and expenses tables and their handlers. The handlers are      *)
(* called with the user get_current_active_user resolved from the bearer   *)
(* token: a row of the users table.                                        *)

Emails == {"alice@example.com", "bob@example.com"}

(* The body of a POST or PUT of an expense (schemas.ExpenseCreate); a      *)
(* category_id of 0 stands for None.                                       *)
ExpenseCreates ==
    {[amount |-> 10, description |-> "Test expense", date |-> 1, category_id |-> 0],
     [amount |-> 20, description |-> "Updated expense", date |-> 1, category_id |-> 0]}

ExpenseIds == 1..(MaxExpenses + 1)

(* The next value of a table's id sequence; no row of these tables is ever *)
(* deleted before a row with a larger id exists.                           *)
next_id(rows) ==
    IF rows = {} THEN 1
    ELSE (CHOOSE r \in rows : \A q \in rows : q.id <= r.id).id + 1

get_user_by_email(db_users, email) ==
    IF \E u \in db_users : u.email = email
    THEN CHOOSE u \in db_users : u.email = email
    ELSE NoUser

create_user(db_users, user) ==
    db_users \cup {[id |-> next_id(db_users), username |-> user.username,
                    email |-> user.email,
                    hashed_password |-> get_password_hash(user.password)]}

(* models.Expense: the columns of a row. *)
Expense(id, expense, owner_id) ==
    [id |-> id, amount |-> expense.amount, description |-> expense.description,
     date |-> expense.date, category_id |-> expense.category_id,
     owner_id |-> owner_id]

NoExpense == [id |-> 0]

(* Whether reading the attribute of the row succeeds; otherwise the read   *)
(* raises AttributeError.                                                  *)
hasattr(row, name) == name \in DOMAIN row

get_expense(db_expenses, expense_id) ==
    IF \E e \in db_expenses : e.id = expense_id
    THEN CHOOSE e \in db_expenses : e.id = expense_id
    ELSE NoExpense

crud_create_expense(db_expenses, expense, user_id) ==
    db_expenses \cup {Expense(next_id(db_expenses), expense, user_id)}

crud_update_expense(db_expenses, expense_id, expense) ==
    {IF e.id = expense_id THEN Expense(e.id, expense, e.owner_id) ELSE e :
        e \in db_expenses}

crud_delete_expense(db_expenses, expense_id) ==
    {e \in db_expenses : e.id # expense_id}

(* The response of a users or expenses handler, with the request it        *)
(* answers; body: the row returned, if any.                                *)
StoreResp(method, endpoint, current_user, expense_id, status, body) ==
    [kind |-> "http", method |-> method, endpoint |-> endpoint,
     current_user |-> current_user, expense_id |-> expense_id,
     status |-> status, body |-> body]

(* POST /signup *)
signup(user) ==
    IF get_user_by_email(users, user.email) # NoUser
    THEN /\ resp' = StoreResp("POST", "/signup", NoUser, 0, 400,
                              <<"Email already registered">>)
         /\ UNCHANGED <<now, log, users, expenses, requests>>
    ELSE IF get_user_by_username(users, user.username) # NoUser
    THEN /\ resp' = StoreResp("POST", "/signup", NoUser, 0, 400,
                              <<"Username already taken">>)
         /\ UNCHANGED <<now, log, users, expenses, requests>>
    ELSE /\ users' = create_user(users, user)
         /\ resp' = StoreResp("POST", "/signup", NoUser, 0, 201,
                              [id |-> next_id(users), email |-> user.email,
                               username |-> user.username])
         /\ UNCHANGED <<now, log, expenses, requests>>

(* POST /expenses/: the row is committed, then the response is built from  *)
(* it by schemas.Expense, whose required field user_id the row lacks.      *)
create_expense(expense, current_user) ==
    LET db_expense == Expense(next_id(expenses), expense, current_user.id)
    IN  /\ Cardinality(expenses) < MaxExpenses
        /\ expenses' = crud_create_expense(expenses, expense, current_user.id)
        /\ resp' = IF hasattr(db_expense, "user_id")
                   THEN StoreResp("POST", "/expenses/", current_user,
                                  db_expense.id, 201, db_expense)
                   ELSE StoreResp("POST", "/expenses/", current_user,
                                  db_expense.id, 500, <<>>)
        /\ UNCHANGED <<now, log, users, requests>>

(* GET /expenses/{expense_id} *)
read_expense(expense_id, current_user) ==
    LET expense == get_expense(expenses, expense_id)
    IN  /\ resp' =
               IF expense = NoExpense
               THEN StoreResp("GET", "/expenses/{expense_id}", current_user,
                              expense_id, 404, <<>>)
               ELSE IF ~hasattr(expense, "user_id")
               THEN StoreResp("GET", "/expenses/{expense_id}", current_user,
                              expense_id, 500, <<>>)
               ELSE IF expense.user_id # current_user.id
               THEN StoreResp("GET", "/expenses/{expense_id}", current_user,
                              expense_id, 403, <<>>)
               ELSE StoreResp("GET", "/expenses/{expense_id}", current_user,
                              expense_id, 200, expense)
        /\ UNCHANGED <<now, log, users, expenses, requests>>

(* PUT /expenses/{expense_id} *)
update_expense(expense_id, expense, current_user) ==
    LET db_expense == get_expense(expenses, expense_id)
    IN  IF db_expense = NoExpense
        THEN /\ resp' = StoreResp("PUT", "/expenses/{expense_id}", current_user,
                                  expense_id, 404, <<>>)
             /\ UNCHANGED <<now, log, users, expenses, requests>>
        ELSE IF ~hasattr(db_expense, "user_id")
        THEN /\ resp' = StoreResp("PUT", "/expenses/{expense_id}", current_user,
                                  expense_id, 500, <<>>)
             /\ UNCHANGED <<now, log, users, expenses, requests>>
        ELSE IF db_expense.user_id # current_user.id
        THEN /\ resp' = StoreResp("PUT", "/expenses/{expense_id}", current_user,
                                  expense_id, 403, <<>>)
             /\ UNCHANGED <<now, log, users, expenses, requests>>
        ELSE /\ expenses' = crud_update_expense(expenses, expense_id, expense)
             /\ resp' = StoreResp("PUT", "/expenses/{expense_id}", current_user,
                                  expense_id, 200,
                                  Expense(expense_id, expense, db_expense.owner_id))
             /\ UNCHANGED <<now, log, users, requests>>

(* DELETE /expenses/{expense_id} *)
delete_expense(expense_id, current_user) ==
    LET db_expense == get_expense(expenses, expense_id)
    IN  IF db_expense = NoExpense
        THEN /\ resp' = StoreResp("DELETE", "/expenses/{expense_id}", current_user,
                                  expense_id, 404, <<>>)
             /\ UNCHANGED <<now, log, users, expenses, requests>>
        ELSE IF ~hasattr(db_expense, "user_id")
        THEN /\ resp' = StoreResp("DELETE", "/expenses/{expense_id}", current_user,
                                  expense_id, 500, <<>>)
             /\ UNCHANGED <<now, log, users, expenses, requests>>
        ELSE IF db_expense.user_id # current_user.id
        THEN /\ resp' = StoreResp("DELETE", "/expenses/{expense_id}", current_user,
                                  expense_id, 403, <<>>)
             /\ UNCHANGED <<now, log, users, expenses, requests>>
        ELSE /\ expenses' = crud_delete_expense(expenses, expense_id)
             /\ resp' = StoreResp("DELETE", "/expenses/{expense_id}", current_user,
                                  expense_id, 204, <<>>)
             /\ UNCHANGED <<now, log, users, requests>>

Signup ==
    \E u \in Usernames, e \in Emails :
        signup([username |-> u, email |-> e, password |-> "secret"])

CreateExpense ==
    \E expense \in ExpenseCreates, current_user \in users :
        create_expense(expense, current_user)

ReadExpense ==
    \E expense_id \in ExpenseIds, current_user \in users :
        read_expense(expense_id, current_user)

UpdateExpense ==
    \E expense_id \in ExpenseIds, expense \in ExpenseCreates, current_user \in users :
        update_expense(expense_id, expense, current_user)

DeleteExpense ==
    \E expense_id \in ExpenseIds, current_user \in users :
        delete_expense(expense_id, current_user)

NextStore ==
    Signup \/ CreateExpense \/ ReadExpense \/ UpdateExpense \/ DeleteExpense

SpecStore == Init /\ [][NextStore]_vars

(* POST /signup served by several workers at once: the handler is a plain  *)
(* def, which the framework runs in a thread pool, so its two look-ups and *)
(* its commit interleave with those of other requests.                     *)
SignupEmails == Emails \cup {"carol@example.com"}

UserCreates ==
    [username : Usernames, email : SignupEmails, password : {"secret"}]

(* The unique constraints of the username and email columns of users. *)
violates_unique(db_users, user) ==
    \E u \in db_users : u.username = user.username \/ u.email = user.email

(* crud.create_user with its commit: a commit that the constraints reject  *)
(* is rolled back and the function returns None.                           *)
commit_user_unconstrained(db_users, user) ==
    create_user(db_users, user)

commit_user(db_users, user) ==
    IF violates_unique(db_users, user)
    THEN db_users
    ELSE create_user(db_users, user)

Answer(w, response) ==
    /\ resp' = response
    /\ requests' = [requests EXCEPT ![w] = Idle]

(* The request arrives; taken records whether its email or username        *)
(* belonged to a user at that time.                                        *)
signup_receive(w, user) ==
    /\ requests[w] = Idle
    /\ requests' = [requests EXCEPT ![w] =
                        [pc |-> "check_email", user |-> user,
                         taken |-> violates_unique(users, user)]]
    /\ UNCHANGED <<now, log, users, expenses, resp>>

signup_check_email(w) ==
    /\ requests[w].pc = "check_email"
    /\ IF get_user_by_email(users, requests[w].user.email) # NoUser
       THEN Answer(w, StoreResp("POST", "/signup", NoUser, 0, 400,
                                <<"Email already registered">>))
       ELSE /\ requests' = [requests EXCEPT ![w].pc = "check_username"]
            /\ UNCHANGED resp
    /\ UNCHANGED <<now, log, users, expenses>>

signup_check_username(w) ==
    /\ requests[w].pc = "check_username"
    /\ IF get_user_by_username(users, requests[w].user.username) # NoUser
       THEN Answer(w, StoreResp("POST", "/signup", NoUser, 0, 400,
                                <<"Username already taken">>))
       ELSE /\ requests' = [requests EXCEPT ![w].pc = "create_user"]
            /\ UNCHANGED resp
    /\ UNCHANGED <<now, log, users, expenses>>

signup_create_user(w) ==
    LET user == requests[w].user
    IN  /\ requests[w].pc = "create_user"
        /\ users' = commit_user(users, user)
        /\ IF users' = users
           THEN Answer(w, StoreResp("POST", "/signup", NoUser, 0, 500,
                                    <<"Failed to create user">>))
           ELSE Answer(w, StoreResp("POST", "/signup", NoUser, 0, 201,
                                    [id |-> next_id(users), email |-> user.email,
                                     username |-> user.username]))
        /\ UNCHANGED <<now, log, expenses>>

SignupReceive == \E w \in Workers, user \in UserCreates : signup_receive(w, user)

SignupCheckEmail == \E w \in Workers : signup_check_email(w)

SignupCheckUsername == \E w \in Workers : signup_check_username(w)

SignupCreateUser == \E w \in Workers : signup_create_user(w)

NextSignup ==
    SignupReceive \/ SignupCheckEmail \/ SignupCheckUsername \/ SignupCreateUser

SpecSignup == Init /\ [][NextSignup]_vars

(* POST /login and POST /token served by several server processes over one *)
(* database: the queries of the gate, the reading of the clock for the new *)
(* row and the commit of that row are separate steps, which interleave     *)
(* with those of the other processes. Inside one process the handlers are  *)
(* coroutines that never await, and run one after the other.               *)
GateEndpoints == {"/login", "/token"}

GateInstants == {0, Seconds(40), RecentWindow + 1}

Pending == {w \in Workers : requests[w].pc = "commit"}

Clock ==
    /\ \E t \in GateInstants : t > now /\ now' = t
    /\ UNCHANGED <<log, users, expenses, requests, resp>>

(* The request arrives and the handler calls is_user_blocked. *)
gate_is_user_blocked(w, endpoint, username, password, client_ip) ==
    /\ requests[w] = Idle
    /\ requests' = [requests EXCEPT ![w] =
                       [pc |-> IF is_user_blocked(log, username, now)
                               THEN "remaining_time" ELSE "verify",
                        endpoint |-> endpoint, username |-> username,
                        password |-> password, client_ip |-> client_ip]]
    /\ UNCHANGED <<now, log, users, expenses, resp>>

(* The blocked branch: get_block_remaining_time and the 429. *)
gate_remaining_time(w) ==
    LET r == requests[w]
    IN  /\ r.pc = "remaining_time"
        /\ Answer(w, Http(r.endpoint, r.username, r.password, 429,
                          BlockedDetail(get_block_remaining_time(log, r.username,
                                                                 now)),
                          NoToken, FALSE))
        /\ UNCHANGED <<now, log, users, expenses>>

(* The credentials are verified and log_login_attempt builds its row,      *)
(* reading the clock.                                                      *)
gate_verify(w) ==
    LET r == requests[w]
        db_user == get_user_by_username(users, r.username)
        user == authenticate_user(users, r.username, r.password)
    IN  /\ r.pc = "verify"
        /\ Len(log) + Cardinality(Pending) < MaxLog
        /\ requests' = [requests EXCEPT ![w] =
                           [pc |-> "commit", endpoint |-> r.endpoint,
                            username |-> r.username, password |-> r.password,
                            client_ip |-> r.client_ip,
                            success |-> user # NoUser,
                            verified |-> (r.endpoint = "/token" \/ db_user # NoUser),
                            timestamp |-> now]]
        /\ UNCHANGED <<now, log, users, expenses, resp>>

(* log_login_attempt commits its row and the handler answers. *)
gate_commit(w) ==
    LET r == requests[w]
    IN  /\ r.pc = "commit"
        /\ log' = log_login_attempt(log, r.username, r.client_ip, r.success,
                                    r.timestamp)
        /\ Answer(w, IF r.success
                     THEN Http(r.endpoint, r.username, r.password, 200, <<>>,
                               create_access_token(r.username, now,
                                                   Hours(TokenHours)),
                               r.verified)
                     ELSE Http(r.endpoint, r.username, r.password, 401,
                               IncorrectDetail, NoToken, r.verified))
        /\ UNCHANGED <<now, users, expenses>>

GateIsUserBlocked ==
    \E w \in Workers, endpoint \in GateEndpoints, p \in Passwords,
       ip \in ClientIps :
        gate_is_user_blocked(w, endpoint, "alice", p, ip)

GateRemainingTime == \E w \in Workers : gate_remaining_time(w)

GateVerify == \E w \in Workers : gate_verify(w)

GateCommit == \E w \in Workers : gate_commit(w)

NextGate ==
    Clock \/ GateIsUserBlocked \/ GateRemainingTime \/ GateVerify \/ GateCommit

SpecGate == Init /\ [][NextGate]_vars

----------------------------------------------------------------------------
(* Properties *)

AnyUsername == Usernames \cup {"carol"}

(* The failed attempts of a username in the trailing minute, as positions  *)
(* of the log.                                                             *)
FailedInMinute(db_log, username, at) ==
    {i \in 1..Len(db_log) : /\ db_log[i].username = username
                            /\ db_log[i].success = 0
                            /\ db_log[i].timestamp >= at - Minutes(1)}

EarliestOf(db_log, positions) ==
    CHOOSE t \in {db_log[i].timestamp : i \in positions} :
        \A i \in positions : t <= db_log[i].timestamp

(* C1: is_user_blocked(username) is true exactly when at least 5 failed     *)
(* records of the username have timestamp >= now - 1 minute and the        *)
(* earliest of them has timestamp >= now - 30 minutes; with 0 to 4 such    *)
(* records (an empty log and an unknown username included) it is false.    *)
C1_BlockedExactly ==
    \A u \in AnyUsername :
        LET F == FailedInMinute(log, u, now)
        IN  /\ is_user_blocked(log, u, now)
                = (/\ Cardinality(F) >= 5
                   /\ EarliestOf(log, F) >= now - Minutes(30))
            /\ Cardinality(F) \in 0..4 => ~is_user_blocked(log, u, now)

(* Five failures in the trailing minute, one of them exactly on its        *)
(* boundary, and the user is blocked.                                      *)
C1_Witness ==
    LET F == FailedInMinute(log, "alice", now)
    IN  /\ Cardinality(F) = 5
        /\ \E i \in F : log[i].timestamp = now - Minutes(1)
        /\ is_user_blocked(log, "alice", now)
        /\ ~is_user_blocked(log, "bob", now)

(* A step of Spec that handles a request; resp' is its response. *)
RequestStep == resp' # resp \/ log' # log

FailedOf(db_log, username) ==
    {i \in 1..Len(db_log) : db_log[i].username = username /\ db_log[i].success = 0}

(* Five failures of the username lie within one minute of one another, and *)
(* the earliest of them is less than 30 minutes old.                       *)
BlockTriggered(db_log, username, at) ==
    \E S \in SUBSET FailedOf(db_log, username) :
        /\ Cardinality(S) = 5
        /\ \A i, j \in S : db_log[j].timestamp - db_log[i].timestamp <= Minutes(1)
        /\ \A i \in S : db_log[i].timestamp <= at
        /\ at < EarliestOf(db_log, S) + Minutes(30)

(* C2: once a username has 5 failed attempts within 1 minute, every /login *)
(* and /token request for it made less than 30 minutes after the failures  *)
(* is rejected with 429.                                                   *)
C2_BlockedForThirtyMinutes ==
    [][(RequestStep /\ BlockTriggered(log, resp'.username, now))
           => resp'.status = 429]_vars

ValidCredentials(username, password) ==
    \E u \in users : /\ u.username = username
                     /\ u.hashed_password = get_password_hash(password)

LastRow(db_log) == db_log[Len(db_log)]

(* C3: while is_user_blocked(username) is true, a /login or /token request *)
(* for it, also one with the correct password, is rejected with 429: the   *)
(* credentials are not verified and no token is issued.                    *)
C3_BlockedRejectsCorrectPassword ==
    [][(RequestStep /\ is_user_blocked(log, resp'.username, now))
           => /\ resp'.status = 429
              /\ ~resp'.verified
              /\ resp'.access_token = NoToken
              /\ resp'.token_type = ""]_vars

(* A blocked registered user has just sent the correct password and got 429. *)
C3_Witness ==
    /\ resp.kind = "http"
    /\ resp.status = 429
    /\ ValidCredentials(resp.username, resp.password)
    /\ is_user_blocked(log, resp.username, now)

(* C4: a /login or /token request rejected because the username is blocked *)
(* leaves the attempt log unchanged.                                       *)
C4_BlockedRequestNotLogged ==
    [][(RequestStep /\ (resp'.status = 429
                        \/ is_user_blocked(log, resp'.username, now)))
           => log' = log]_vars

(* /token has just answered 429 and the log still holds the five failures  *)
(* only.                                                                   *)
C4_Witness ==
    /\ resp.kind = "http"
    /\ resp.status = 429
    /\ resp.endpoint = "/token"
    /\ Len(log) = 5
    /\ Cardinality(FailedInMinute(log, resp.username, now)) = 5

(* C5: a request issues an access token only if, in that request,          *)
(* is_user_blocked was false, the credentials were valid and a success=1   *)
(* row of the username was written to the log.                             *)
C5_TokenOnlyAfterLoggedSuccess ==
    [][(RequestStep /\ (resp'.access_token # NoToken \/ resp'.status = 200))
           => /\ ~is_user_blocked(log, resp'.username, now)
              /\ ValidCredentials(resp'.username, resp'.password)
              /\ resp'.verified
              /\ Len(log') = Len(log) + 1
              /\ SubSeq(log', 1, Len(log)) = log
              /\ LastRow(log').username = resp'.username
              /\ LastRow(log').success = 1
              /\ LastRow(log').timestamp = now
              /\ resp'.access_token.sub = resp'.username]_vars

(* /token has just issued a token and the success row is the last of the log. *)
C5_Witness ==
    /\ resp.kind = "http"
    /\ resp.endpoint = "/token"
    /\ resp.access_token # NoToken
    /\ Len(log) > 0
    /\ LastRow(log).success = 1
    /\ LastRow(log).username = resp.username
    /\ LastRow(log).timestamp = now

(* C6: whenever fewer than 5 failed attempts of a username lie in the      *)
(* trailing minute, a /login request with that user's correct password is  *)
(* answered 200 with a bearer token, also right after 4 failed attempts.   *)
C6_CorrectPasswordSucceeds ==
    [][(/\ RequestStep
        /\ resp'.endpoint = "/login"
        /\ ValidCredentials(resp'.username, resp'.password)
        /\ Cardinality(FailedInMinute(log, resp'.username, now)) < 5)
           => /\ resp'.status = 200
              /\ resp'.token_type = "bearer"
              /\ resp'.access_token # NoToken
              /\ resp'.access_token.sub = resp'.username]_vars

(* Four failures in the trailing minute, then the login succeeded. *)
C6_Witness ==
    /\ resp.kind = "http"
    /\ resp.endpoint = "/login"
    /\ resp.status = 200
    /\ Len(log) = 5
    /\ \A i \in 1..4 : /\ log[i].username = resp.username
                       /\ log[i].success = 0
                       /\ log[i].timestamp >= now - Minutes(1)
    /\ log[5].success = 1

(* C7: /login and /token feed and consult one log keyed by username: a     *)
(* request answered 401 on either endpoint appends a failure of its        *)
(* username to the log, and a request on either endpoint for a username    *)
(* with 5 failures in the trailing minute, whichever endpoints wrote them, *)
(* is rejected with 429.                                                   *)
C7_EndpointsShareLog ==
    [][RequestStep
           => /\ resp'.status = 401
                    => /\ Len(log') = Len(log) + 1
                       /\ SubSeq(log', 1, Len(log)) = log
                       /\ LastRow(log').username = resp'.username
                       /\ LastRow(log').success = 0
                       /\ LastRow(log').timestamp = now
              /\ Cardinality(FailedInMinute(log, resp'.username, now)) >= 5
                    => resp'.status = 429]_vars

(* The fifth failure of the minute has just been answered 401 by /token    *)
(* and the username is now blocked.                                        *)
C7_Witness ==
    /\ resp.kind = "http"
    /\ resp.endpoint = "/token"
    /\ resp.status = 401
    /\ Cardinality(FailedInMinute(log, resp.username, now)) = 5
    /\ LastRow(log).username = resp.username
    /\ is_user_blocked(log, resp.username, now)

(* The rows of one username, and a log with the ip_address of the rows at  *)
(* the given positions replaced.                                           *)
OnlyOf(db_log, username) ==
    LET Mine(a) == a.username = username
    IN  SelectSeq(db_log, Mine)

WithIp(db_log, positions, ip) ==
    [i \in 1..Len(db_log) |->
        IF i \in positions THEN [db_log[i] EXCEPT !.ip_address = ip] ELSE db_log[i]]

IpChanges(db_log) == {1..Len(db_log), {i \in 1..Len(db_log) : i % 2 = 1}}

(* C8: is_user_blocked(u) and get_block_remaining_time(u) depend only on   *)
(* the records whose username is u and not on their ip_address: the log    *)
(* with the other usernames' records removed, and the log with ip_address  *)
(* values changed, give the same results.                                  *)
C8_PerUsernameOnly ==
    \A u \in Usernames :
        /\ is_user_blocked(OnlyOf(log, u), u, now) = is_user_blocked(log, u, now)
        /\ get_block_remaining_time(OnlyOf(log, u), u, now)
               = get_block_remaining_time(log, u, now)
        /\ \A S \in IpChanges(log), ip \in AuditIps \ ClientIps :
               /\ is_user_blocked(WithIp(log, S, ip), u, now)
                      = is_user_blocked(log, u, now)
               /\ get_block_remaining_time(WithIp(log, S, ip), u, now)
                      = get_block_remaining_time(log, u, now)

(* alice is blocked; bob, with a failure of his own in the log, is not and *)
(* has another remaining time.                                             *)
C8_Witness ==
    /\ is_user_blocked(log, "alice", now)
    /\ ~is_user_blocked(log, "bob", now)
    /\ FailedOf(log, "bob") # {}
    /\ get_block_remaining_time(log, "bob", now)
           # get_block_remaining_time(log, "alice", now)

WithoutSuccesses(db_log) ==
    LET Failed(a) == a.success = 0
    IN  SelectSeq(db_log, Failed)

InsertAt(db_log, k, row) ==
    SubSeq(db_log, 1, k) \o <<row>> \o SubSeq(db_log, k + 1, Len(db_log))

SuccessInMinute(db_log, username, at) ==
    {i \in 1..Len(db_log) : /\ db_log[i].username = username
                            /\ db_log[i].success = 1
                            /\ db_log[i].timestamp >= at - Minutes(1)}

(* C9: a success=1 record never counts as a failure and never resets the   *)
(* count: removing the success records, or adding one anywhere, leaves     *)
(* is_user_blocked unchanged; 4 failures plus a success in the trailing    *)
(* minute are not blocked, 5 failures around a success are.                *)
C9_SuccessNeverCounts ==
    \A u \in Usernames :
        /\ is_user_blocked(WithoutSuccesses(log), u, now)
               = is_user_blocked(log, u, now)
        /\ \A k \in 0..Len(log) :
               is_user_blocked(InsertAt(log, k, LoginAttempt(0, u, "unknown", 1, now)),
                               u, now)
                   = is_user_blocked(log, u, now)
        /\ (/\ Cardinality(FailedInMinute(log, u, now)) = 4
            /\ SuccessInMinute(log, u, now) # {})
               => ~is_user_blocked(log, u, now)
        /\ (/\ Cardinality(FailedInMinute(log, u, now)) = 5
            /\ SuccessInMinute(log, u, now) # {})
               => is_user_blocked(log, u, now)

(* Failures of alice before and after a success total 5 in the trailing    *)
(* minute, and she is blocked.                                             *)
C9_Witness ==
    /\ Len(log) = 6
    /\ \E k \in 2..5 :
           /\ log[k].success = 1
           /\ \A i \in (1..6) \ {k} : log[i].success = 0
    /\ \A i \in 1..6 : log[i].username = "alice" /\ log[i].timestamp >= now - Minutes(1)
    /\ is_user_blocked(log, "alice", now)

C11_RemainingTimeNonIncreasing ==
    \A u \in AnyUsername :
        \A t1 \in Instants, t2 \in Instants :
            (now <= t1 /\ t1 <= t2)
                => get_block_remaining_time(log, u, t2)
                       <= get_block_remaining_time(log, u, t1)

(* C12: for a username whose failed attempts were made some minutes ago,   *)
(* less than 30, get_block_remaining_time returns 30 minutes minus their   *)
(* age: failures made about 5 minutes before now (4 min 50 s to 5 min 10 s)*)
(* give a remaining time between 1490 and 1510 seconds.                    *)
C12_AgedFailuresRemainingTime ==
    \A u \in Usernames :
        LET F == FailedOf(log, u)
        IN  (/\ F # {}
             /\ \A i \in F : now - log[i].timestamp
                                 \in (Minutes(5) - Seconds(10))..(Minutes(5) + Seconds(10)))
                => get_block_remaining_time(log, u, now) \in 1490..1510

(* C13: the response to a failed login does not reveal whether the         *)
(* username exists: every /login and /token request whose credentials are  *)
(* not valid, for an unregistered username as for a registered one with a  *)
(* wrong password, is answered 429 without a log row when the username is  *)
(* blocked, and otherwise 401 with the detail 'Incorrect username or       *)
(* password', the WWW-Authenticate header and one success=0 row.           *)
C13_FailureHidesExistence ==
    [][(RequestStep /\ ~ValidCredentials(resp'.username, resp'.password))
           => IF is_user_blocked(log, resp'.username, now)
              THEN /\ resp'.status = 429
                   /\ resp'.www_authenticate = "Bearer"
                   /\ log' = log
              ELSE /\ resp'.status = 401
                   /\ resp'.detail = IncorrectDetail
                   /\ resp'.www_authenticate = "Bearer"
                   /\ resp'.access_token = NoToken
                   /\ resp'.token_type = ""
                   /\ Len(log') = Len(log) + 1
                   /\ SubSeq(log', 1, Len(log)) = log
                   /\ LastRow(log').username = resp'.username
                   /\ LastRow(log').success = 0
                   /\ LastRow(log').timestamp = now]_vars

(* /login has just answered 401 to an unregistered username, and the log   *)
(* also holds the failure of a registered one.                             *)
C13_Witness ==
    /\ resp.kind = "http"
    /\ resp.endpoint = "/login"
    /\ resp.status = 401
    /\ resp.detail = IncorrectDetail
    /\ get_user(users, resp.username) = NoUser
    /\ Len(log) > 1
    /\ LastRow(log).username = resp.username
    /\ LastRow(log).success = 0
    /\ \E i \in 1..Len(log) : /\ get_user(users, log[i].username) # NoUser
                              /\ log[i].success = 0

C15_LogAppendOnly ==
    [][/\ Len(log') \in {Len(log), Len(log) + 1}
       /\ \A i \in 1..Len(log) : log'[i] = log[i]
       /\ (RequestStep /\ resp'.status = 429) => log' = log]_vars

(* A success has just been logged after two failures of the same username, *)
(* which are still the first rows of the log.                              *)
C15_Witness ==
    /\ resp.kind = "http"
    /\ resp.status = 200
    /\ Len(log) = 3
    /\ \A i \in 1..2 : log[i].username = resp.username /\ log[i].success = 0
    /\ log[3].username = resp.username
    /\ log[3].success = 1
    /\ \A i \in 1..3 : log[i].id = i

(* C16: being rate-limited is always recoverable by waiting: from any      *)
(* state in which a username is blocked, time advancing and no new attempt *)
(* being recorded for it, a state is eventually reached in which           *)
(* is_user_blocked is false and, for a registered username, the request    *)
(* with the correct password has been accepted.                            *)
C16_BlockedRecoversByWaiting ==
    \A u \in Usernames :
        is_user_blocked(log, u, now)
            ~> (/\ ~is_user_blocked(log, u, now)
                /\ get_user(users, u) # NoUser
                      => /\ resp.kind = "http"
                         /\ resp.username = u
                         /\ resp.status = 200
                         /\ resp.access_token # NoToken)

(* alice, blocked by five failures, has waited and logged in.              *)
C16_Witness ==
    /\ Cardinality(FailedOf(log, "alice")) = 5
    /\ \E t \in RecoverInstants :
           /\ t < now
           /\ is_user_blocked(SubSeq(log, 1, 5), "alice", t)
    /\ ~is_user_blocked(log, "alice", now)
    /\ Len(log) = 6
    /\ log[6].success = 1
    /\ resp.kind = "http"
    /\ resp.username = "alice"
    /\ resp.status = 200

(* C17: if writing the success=1 attempt row fails after the credentials   *)
(* were verified as valid, the request still reports the token: 200 with   *)
(* an access token; the write is not retried (no row is added).            *)
C17_FailedWriteStillIssuesToken ==
    [][(/\ RequestStep
        /\ resp'.raised = "log_login_attempt"
        /\ ValidCredentials(resp'.username, resp'.password))
           => /\ resp'.status = 200
              /\ resp'.access_token # NoToken
              /\ log' = log]_vars

(* C18: if a limiter query raises because the store is unavailable, the    *)
(* /login or /token request ends with a 500: no token is issued, no 401 or *)
(* 200 credential outcome is reported, the credentials are not verified    *)
(* and no attempt row is written.                                          *)
C18_LimiterFailureIs500 ==
    [][(/\ RequestStep
        /\ resp'.raised \in {"is_user_blocked", "get_block_remaining_time"})
           => /\ resp'.status = 500
              /\ resp'.access_token = NoToken
              /\ resp'.token_type = ""
              /\ resp'.detail \in {LoginErrorDetail, TokenErrorDetail}
              /\ ~resp'.verified
              /\ log' = log]_vars

(* The block check has just raised for a /token request with the correct   *)
(* password of a user with failures in the log, and the answer is 500.     *)
C18_Witness ==
    /\ resp.kind = "http"
    /\ resp.endpoint = "/token"
    /\ resp.raised = "is_user_blocked"
    /\ resp.status = 500
    /\ ValidCredentials(resp.username, resp.password)
    /\ FailedOf(log, resp.username) # {}

(* C19: the 429 response of either endpoint embeds the remaining time r    *)
(* returned by get_block_remaining_time as m minutes and s seconds with    *)
(* 60 * m + s = r and 0 <= s <= 59, and the same holds of the detail built *)
(* for every r in 0..1800.                                                 *)
C19_BlockedDetailMinutesSeconds ==
    /\ \A q \in 0..1800 :
           LET d == BlockedDetail(q)
           IN  /\ 60 * d[2] + d[3] = q
               /\ d[3] \in 0..59
               /\ d[2] \in 0..30
    /\ [][(RequestStep /\ resp'.status = 429)
              => LET r == get_block_remaining_time(log, resp'.username, now)
                     m == resp'.detail[2]
                     s == resp'.detail[3]
                 IN  /\ r \in 0..1800
                     /\ 60 * m + s = r
                     /\ s \in 0..59
                     /\ m \in 0..30]_vars

(* /token has just answered 429 with '29 minutes and 59 seconds': the      *)
(* earliest failure of the minute is half a second old.                    *)
C19_Witness ==
    /\ resp.kind = "http"
    /\ resp.endpoint = "/token"
    /\ resp.status = 429
    /\ resp.detail[2] = 29
    /\ resp.detail[3] = 59
    /\ get_block_remaining_time(log, resp.username, now) = 1799

(* A step of SpecStore that handles a request on one expense. *)
ExpenseStep ==
    /\ resp' # resp \/ expenses' # expenses
    /\ resp'.endpoint = "/expenses/{expense_id}"

(* C20: for an expense that exists and was created by the authenticated    *)
(* user, GET /expenses/{id} returns it with 200, PUT /expenses/{id}        *)
(* updates it and returns 200, and DELETE /expenses/{id} returns 204 and   *)
(* removes the expense from the store.                                     *)
C20_OwnerExpenseCrud ==
    [][(/\ ExpenseStep
        /\ \E e \in expenses : /\ e.id = resp'.expense_id
                               /\ e.owner_id = resp'.current_user.id)
           => LET e == get_expense(expenses, resp'.expense_id)
              IN  CASE resp'.method = "GET"
                         -> /\ resp'.status = 200
                            /\ resp'.body = e
                            /\ expenses' = expenses
                    [] resp'.method = "PUT"
                         -> /\ resp'.status = 200
                            /\ resp'.body \in expenses'
                            /\ resp'.body.id = e.id
                            /\ resp'.body.owner_id = e.owner_id
                            /\ Cardinality(expenses') = Cardinality(expenses)
                    [] resp'.method = "DELETE"
                         -> /\ resp'.status = 204
                            /\ expenses' = {x \in expenses : x.id # e.id}]_vars

(* C21: a GET, PUT or DELETE on /expenses/{id} by an authenticated user    *)
(* who does not own the expense is rejected with 403 and leaves the        *)
(* expense unchanged and undisclosed.                                      *)
C21_NonOwnerRejected ==
    [][(/\ ExpenseStep
        /\ \E e \in expenses : /\ e.id = resp'.expense_id
                               /\ e.owner_id # resp'.current_user.id)
           => /\ resp'.status = 403
              /\ resp'.body = <<>>
              /\ expenses' = expenses]_vars

(* C22: a /signup request whose email or username belongs to an existing   *)
(* user when it arrives is answered 400 and leaves the users table         *)
(* unchanged; and whatever the interleaving of signups, no two users share *)
(* a username or an email.                                                 *)
UniqueUsers ==
    \A u1 \in users, u2 \in users :
        (u1.username = u2.username \/ u1.email = u2.email) => u1 = u2

C22_SignupKeepsUsersUnique ==
    /\ []UniqueUsers
    /\ [][\A w \in Workers :
            (requests[w] # Idle /\ requests'[w] = Idle /\ requests[w].taken)
                => resp'.status = 400 /\ users' = users]_vars

(* Two signups of one new username passed both look-ups; one has been      *)
(* committed and the other refused by the constraint.                      *)
C22_Witness ==
    /\ resp.kind = "http"
    /\ resp.endpoint = "/signup"
    /\ resp.status = 500
    /\ Cardinality(users) = 2
    /\ UniqueUsers


(* The rows of a log with timestamp at most t. *)
UpTo(db_log, t) ==
    LET Keep(a) == a.timestamp <= t
    IN  SelectSeq(db_log, Keep)

C24_GateNotSerialized ==
    /\ [](\A u \in AnyUsername :
            LET n == Cardinality(FailedInMinute(log, u, now))
            IN  /\ n <= MaxFailedAttempts - 1 + MaxWorkers
                /\ n >= MaxFailedAttempts => is_user_blocked(log, u, now))
    /\ [][\A w \in Workers :
            (/\ requests[w] = Idle
             /\ requests'[w] # Idle
             /\ Cardinality(FailedInMinute(log, requests'[w].username, now))
                    >= MaxFailedAttempts)
                => requests'[w].pc = "remaining_time"]_vars
    /\ [][\A w \in Workers :
            (requests[w].pc = "remaining_time" /\ requests'[w] = Idle)
                => resp'.status = 429 /\ log' = log]_vars

(* Six failed rows of alice in the trailing minute, the last two written   *)
(* by requests that both passed the block check, and the next request has  *)
(* been answered 429.                                                      *)
C24_Witness ==
    /\ Cardinality(FailedInMinute(log, "alice", now)) = MaxFailedAttempts + 1
    /\ resp.kind = "http"
    /\ resp.status = 429
    /\ \A w \in Workers : requests[w] = Idle

(* C27: within one username the attempt log is ordered by timestamp: rows  *)
(* of the same username appear in commit order with non-decreasing         *)
(* timestamps, also when requests for the username run concurrently.       *)
C27_LogOrderedByTimestamp ==
    \A i \in 1..Len(log), j \in 1..Len(log) :
        (i < j /\ log[i].username = log[j].username)
            => log[i].timestamp <= log[j].timestamp

(* The outcomes a request of the gate can have: rejected while blocked,    *)
(* refused and logged as a failure, or granted a token and logged as a     *)
(* success.                                                                *)
Outcomes(username, password, client_ip) ==
    {[status |-> 429,
      detail |-> BlockedDetail(get_block_remaining_time(log, username, now)),
      access_token |-> NoToken,
      log |-> log],
     [status |-> 401,
      detail |-> IncorrectDetail,
      access_token |-> NoToken,
      log |-> log_login_attempt(log, username, client_ip, FALSE, now)],
     [status |-> 200,
      detail |-> <<>>,
      access_token |-> create_access_token(username, now, Hours(TokenHours)),
      log |-> log_login_attempt(log, username, client_ip, TRUE, now)]}

HasOutcome(o) ==
    /\ resp'.status = o.status
    /\ resp'.detail = o.detail
    /\ resp'.access_token = o.access_token
    /\ resp'.token_type = (IF o.status = 200 THEN "bearer" ELSE "")
    /\ log' = o.log

(* C25: /login and /token implement the same gate: for every username      *)
(* (registered or not), password, attempt log and instant, both have the   *)
(* same outcome, one of 429, 401 and 200 with a token, and leave the same  *)
(* attempt log.                                                            *)
C25_EndpointsEquivalent ==
    \A u \in Usernames, p \in Passwords, ip \in ClientIps :
        \/ \E o \in Outcomes(u, p, ip) :
               /\ ENABLED (login(u, p, ip) /\ HasOutcome(o))
               /\ ENABLED (login_for_access_token(u, p, ip) /\ HasOutcome(o))
        \/ /\ ~ENABLED login(u, p, ip)
           /\ ~ENABLED login_for_access_token(u, p, ip)

(* /login has just answered 401 to an unregistered username without        *)
(* calling authenticate_user, and logged the attempt.                      *)
C25_Witness ==
    /\ resp.kind = "http"
    /\ resp.endpoint = "/login"
    /\ resp.status = 401
    /\ ~resp.verified
    /\ get_user_by_username(users, resp.username) = NoUser
    /\ Len(log) > 0
    /\ LastRow(log).username = resp.username
    /\ LastRow(log).success = 0

(* C26: whenever a failed attempt of a username lies in the trailing        *)
(* minute, get_block_remaining_time returns a value between 1740 and 1800  *)
(* seconds, blocked or not, so its clamp to 0 does not apply; and every    *)
(* 429 reports at least 29 minutes.                                        *)
C26_RemainingTimeAtLeast29Minutes ==
    /\ [](\A u \in AnyUsername :
            LET F == FailedInMinute(log, u, now)
                r == get_block_remaining_time(log, u, now)
            IN  F # {} => /\ r \in 1740..1800
                          /\ EarliestOf(log, F) + BlockWindow - now > 0)
    /\ [][(RequestStep /\ resp'.status = 429)
             => /\ resp'.detail[2] >= 29
                /\ 60 * resp'.detail[2] + resp'.detail[3] \in 1740..1800]_vars

(* A 429 for alice whose earliest failure is exactly one minute old        *)
(* reports 29 minutes and 0 seconds, while bob, with one failure and not   *)
(* blocked, has a remaining time as well.                                  *)
C26_Witness ==
    /\ resp.kind = "http"
    /\ resp.status = 429
    /\ resp.username = "alice"
    /\ resp.detail = BlockedDetail(1740)
    /\ Cardinality(FailedInMinute(log, "bob", now)) = 1
    /\ ~is_user_blocked(log, "bob", now)
    /\ get_block_remaining_time(log, "bob", now) >= 1740

(* The failed rows of a username whose timestamps lie in the 60 seconds    *)
(* that begin at t, as positions of the log.                               *)
FailedInWindow(db_log, username, t) ==
    {j \in FailedOf(db_log, username) :
        db_log[j].timestamp >= t /\ db_log[j].timestamp <= t + RecentWindow}

(* The failed row of a username that has exactly k - 1 failed rows of the  *)
(* username after it.                                                      *)
KthMostRecentFailure(db_log, username, k) ==
    CHOOSE i \in FailedOf(db_log, username) :
        Cardinality({j \in FailedOf(db_log, username) : j > i}) = k - 1

(* C28: with requests processed one at a time, every 60-second window      *)
(* holds at most 5 failed rows of a username, so whenever is_user_blocked  *)
(* is true the trailing minute holds exactly 5 failures and the trigger    *)
(* is the fifth-most-recent failure of the username.                       *)
C28_AtMostFiveFailuresPerWindow ==
    \A u \in AnyUsername :
        /\ \A i \in FailedOf(log, u) :
               Cardinality(FailedInWindow(log, u, log[i].timestamp)) <= 5
        /\ is_user_blocked(log, u, now) =>
               LET F == FailedInMinute(log, u, now)
                   one_minute_ago == now - RecentWindow
               IN  /\ Cardinality(F) = 5
                   /\ F = {i \in FailedOf(log, u) :
                               i >= KthMostRecentFailure(log, u, 5)}
                   /\ first_by_timestamp(recent_failed(log, u, one_minute_ago))
                          .timestamp
                          = log[KthMostRecentFailure(log, u, 5)].timestamp

(* alice is blocked by five failures after an older failure that has left  *)
(* the trailing minute: the trigger is not her first failure.              *)
C28_Witness ==
    /\ is_user_blocked(log, "alice", now)
    /\ Cardinality(FailedOf(log, "alice")) = 6
    /\ Cardinality(FailedInMinute(log, "alice", now)) = 5
    /\ resp.kind = "http"
    /\ resp.status = 429

ChangeInstants(db_log, at) ==
    {at} \cup {t \in {db_log[i].timestamp + RecentWindow + d :
                         i \in 1..Len(db_log), d \in {0, 1}} : t >= at}

(* C30: requests rejected with 429 never prolong a block: a /login or      *)
(* /token request for a blocked username, with the correct or a wrong      *)
(* password, leaves is_user_blocked of that username as it was at every    *)
(* later instant, so the block ends when it would have ended without the   *)
(* request.                                                                *)
C30_RejectedRequestsDoNotProlong ==
    [][(RequestStep /\ is_user_blocked(log, resp'.username, now))
          => /\ resp'.status = 429
             /\ \A t \in ChangeInstants(log', now) :
                    is_user_blocked(log', resp'.username, t)
                        = is_user_blocked(log, resp'.username, t)]_vars

(* alice, blocked by failures 40 seconds old, has been answered 429 with   *)
(* the correct password; her block still ends at 60.5 seconds.             *)
C30_Witness ==
    /\ now = Seconds(40)
    /\ resp.kind = "http"
    /\ resp.username = "alice"
    /\ resp.password = "secret"
    /\ resp.status = 429
    /\ is_user_blocked(log, "alice", RecentWindow)
    /\ ~is_user_blocked(log, "alice", RecentWindow + 1)

====
